---- MODULE Spec2Model ----
(***************************************************************************)
(* Jotter: stroke classification and redraw reconciliation of the web      *)
(* canvas (WebCanvas), in the three variants the repository holds:         *)
(*   "heuristic"  src/Jotter/GridCanvas.js, lines 216-598                  *)
(*   "contour"    src/unnamed/part_002, lines 1-463                        *)
(*   "final"      src/unnamed/part_003, lines 463-1021                     *)
(* and the ref-based mobile canvas (GridCanvas of src/unnamed/part_001).   *)
(* Lengths are fixed-point numbers: one pixel is Scale units.              *)
(***************************************************************************)
EXTENDS Integers, Sequences, FiniteSets, TLC

VARIABLES
  variant,          \* which WebCanvas is mounted
  opencvLoaded,     \* useState(false), set by script.onload
  isDrawing,        \* useState(false)
  currentStroke,    \* useState([])
  recognizedShapes, \* useState([]): the Ledger
  ctxStyle,         \* strokeStyle / lineWidth of the 2d context
  canvas,           \* what the live canvas shows since it was last cleared
  renderLog,        \* render calls issued by the last handler
  callLog,          \* classifier and pipeline calls made by the last handler
  lastEvent,        \* the last handler that ran, with what it decided
  script,           \* the opencv.js script element: loading, loaded or failed
  nDown,            \* pointer-down events so far
  nRecognized,      \* strokes classified as a non-freehand shape so far
  nFreehand,        \* strokes classified freehand so far
  mounted,          \* the mobile GridCanvas is mounted
  paths,            \* its useState([]): the paths drawn on the Skia canvas
  currentPath,      \* its useRef(null): the path of the gesture in progress
  released          \* the paths of the gestures released after a move, as released

\* The state of the mobile canvas.
mobile == << mounted, paths, currentPath, released >>

vars == << variant, opencvLoaded, isDrawing, currentStroke, recognizedShapes,
           ctxStyle, canvas, renderLog, callLog, lastEvent, script,
           nDown, nRecognized, nFreehand, mobile >>

(***************************************************************************)
(* Bounds of the model.                                                    *)
(***************************************************************************)
MaxCycles == 2      \* pointer-down events in one run
MaxContours == 2    \* contours one trace of the raster returns
MaxGestures == 3    \* gestures on the mobile canvas in one run
MaxSamples == 3     \* samples of one gesture on the mobile canvas

(***************************************************************************)
(* Numbers.                                                                *)
(***************************************************************************)
Scale == 10 * 10

Pt(px, py) == [x |-> px, y |-> py]

\* A captured sample (integer pixels) as a fixed-point point.
Fix(p) == [x |-> p.x * Scale, y |-> p.y * Scale]

Abs(n) == IF n < 0 THEN -n ELSE n

\* Newton's iteration for the integer square root, from a guess x >= sqrt(n).
RECURSIVE SqrtFrom(_, _)
SqrtFrom(n, x) ==
  LET y == (x + n \div x) \div 2
  IN IF y >= x THEN x ELSE SqrtFrom(n, y)

RECURSIVE SumSeq(_)
SumSeq(s) == IF s = << >> THEN 0 ELSE Head(s) + SumSeq(Tail(s))

SeqMin(s) == CHOOSE v \in {s[i] : i \in DOMAIN s} :
               \A w \in {s[i] : i \in DOMAIN s} : v <= w
SeqMax(s) == CHOOSE v \in {s[i] : i \in DOMAIN s} :
               \A w \in {s[i] : i \in DOMAIN s} : v >= w

First(s) == s[1]
Last(s) == s[Len(s)]

(***************************************************************************)
(* Geometry helpers.                                                       *)
(***************************************************************************)
\* Both arguments are fixed-point points; so is the result.
\* Math.sqrt rounded down to the fixed-point grid; |dx| + |dy| is the guess.
distance(point1, point2) ==
  LET dx == Abs(point2.x - point1.x)
      dy == Abs(point2.y - point1.y)
  IN IF dx + dy = 0 THEN 0 ELSE SqrtFrom(dx * dx + dy * dy, dx + dy)

calculateTotalDistance(stroke) ==
  SumSeq([i \in 1..(Len(stroke) - 1) |-> distance(Fix(stroke[i]), Fix(stroke[i + 1]))])

\* In pixels: the samples are integers, and so are the bounds.
getBoundingBox(stroke) ==
  LET xs == [i \in DOMAIN stroke |-> stroke[i].x]
      ys == [i \in DOMAIN stroke |-> stroke[i].y]
  IN [minX |-> SeqMin(xs), maxX |-> SeqMax(xs),
      minY |-> SeqMin(ys), maxY |-> SeqMax(ys),
      width |-> SeqMax(xs) - SeqMin(xs),
      height |-> SeqMax(ys) - SeqMin(ys)]

\* A fixed-point point.
calculateCenter(stroke) ==
  LET sumX == SumSeq([i \in DOMAIN stroke |-> stroke[i].x])
      sumY == SumSeq([i \in DOMAIN stroke |-> stroke[i].y])
  IN [x |-> (sumX * Scale) \div Len(stroke), y |-> (sumY * Scale) \div Len(stroke)]

average(values) == SumSeq(values) \div Len(values)

\* Population variance, in squared fixed-point units.
calculateVariance(values) ==
  LET mean == SumSeq(values) \div Len(values)
      squaredDiffs == [i \in DOMAIN values |-> (values[i] - mean) * (values[i] - mean)]
  IN SumSeq(squaredDiffs) \div Len(values)

\* width / height compared with lo/den and hi/den as JavaScript compares them:
\* x/0 is Infinity or NaN, and neither lies strictly between two numbers.
AspectBetween(bounds, lo, hi, den) ==
  /\ bounds.height # 0
  /\ bounds.width * den > lo * bounds.height
  /\ bounds.width * den < hi * bounds.height

(***************************************************************************)
(* findCorners: Math.abs(atan2(d1) - atan2(d2)) > Math.PI / 6, decided     *)
(* exactly on integer direction vectors.                                   *)
(***************************************************************************)
\* atan2(0, 0) is 0, the angle of (1, 0).
Dir(dx, dy) == IF dx = 0 /\ dy = 0 THEN [x |-> 1, y |-> 0] ELSE [x |-> dx, y |-> dy]

\* The angle between the two directions is more than 30 degrees.
TurnsMoreThan30(u, v) ==
  LET dot == u.x * v.x + u.y * v.y
      nu == u.x * u.x + u.y * u.y
      nv == v.x * v.x + v.y * v.y
  IN dot <= 0 \/ 4 * dot * dot < 3 * nu * nv

\* atan2 is in (-pi, pi]: it is positive on the upper half plane and on the
\* negative x axis.
UpperSide(u) == u.y > 0 \/ (u.y = 0 /\ u.x < 0)

\* The two angles lie on different sides of the cut along the negative x axis,
\* so their difference is off by a full turn.
AcrossCut(u, v) ==
  /\ u.x < 0 /\ v.x < 0
  /\ UpperSide(u) # UpperSide(v)

angleDiffExceeds(prev, curr, next) ==
  LET u == Dir(curr.x - prev.x, curr.y - prev.y)
      v == Dir(next.x - curr.x, next.y - curr.y)
  IN TurnsMoreThan30(u, v) \/ AcrossCut(u, v)

\* The corners, in stroke order.
findCorners(stroke) ==
  LET at == SelectSeq([i \in 1..(Len(stroke) - 2) |-> i + 1],
                      LAMBDA i : angleDiffExceeds(stroke[i - 1], stroke[i], stroke[i + 1]))
  IN [k \in DOMAIN at |-> stroke[at[k]]]

isTriangle(stroke) == Len(findCorners(stroke)) >= 3

(***************************************************************************)
(* Heuristic predicates.                                                   *)
(***************************************************************************)
THRESHOLD == 10

\* distance(first, last) < THRESHOLD
isClosed(stroke) == distance(Fix(First(stroke)), Fix(Last(stroke))) < THRESHOLD * Scale

\* isLine accepting only a stroke with no detour at all.
isLineExact(stroke) ==
  IF Len(stroke) < 2 THEN FALSE
  ELSE distance(Fix(First(stroke)), Fix(Last(stroke))) >= calculateTotalDistance(stroke)

\* The same in all three variants.
isLine(stroke) ==
  IF Len(stroke) < 2 THEN FALSE
  ELSE LET straightDistance == distance(Fix(First(stroke)), Fix(Last(stroke)))
           totalDistance == calculateTotalDistance(stroke)
       IN IF totalDistance = 0 THEN FALSE
          ELSE 10 * straightDistance > 9 * totalDistance

\* Distances of the samples from the centre.
radii(stroke) ==
  LET center == calculateCenter(stroke)
  IN [i \in DOMAIN stroke |-> distance(center, Fix(stroke[i]))]

\* part_002 and part_003: no corner test.
isRectangle(stroke) ==
  IF Len(stroke) < 4 THEN FALSE
  ELSE IF ~isClosed(stroke) THEN FALSE
  ELSE AspectBetween(getBoundingBox(stroke), 2, 50, 10)

\* part_002 and part_003: no variance test.
isCircle(stroke) ==
  IF Len(stroke) < 6 THEN FALSE
  ELSE IF ~isClosed(stroke) THEN FALSE
  ELSE IF average(radii(stroke)) = 0 THEN FALSE
  ELSE AspectBetween(getBoundingBox(stroke), 5, 20, 10)

\* isRectangle asking for four corners.
isRectangleFourCorners(stroke) ==
  IF Len(stroke) < 4 THEN FALSE
  ELSE IF ~isClosed(stroke) THEN FALSE
  ELSE /\ Len(findCorners(stroke)) >= 4
       /\ AspectBetween(getBoundingBox(stroke), 2, 50, 10)

\* GridCanvas.js: closed, at least 2 corners, lenient aspect ratio.
isRectangleCorners(stroke) ==
  IF Len(stroke) < 4 THEN FALSE
  ELSE IF ~isClosed(stroke) THEN FALSE
  ELSE /\ Len(findCorners(stroke)) >= 2
       /\ AspectBetween(getBoundingBox(stroke), 2, 50, 10)

\* GridCanvas.js: variance / averageRadius < 0.5, the radii in pixels.
isCircleVariance(stroke) ==
  IF Len(stroke) < 6 THEN FALSE
  ELSE IF ~isClosed(stroke) THEN FALSE
  ELSE LET distances == radii(stroke)
           averageRadius == average(distances)
           variance == calculateVariance(distances)
       IN IF averageRadius = 0 THEN FALSE
          ELSE /\ 2 * variance < Scale * averageRadius
               /\ AspectBetween(getBoundingBox(stroke), 5, 20, 10)

\* The lengths below 330 at which the double n * 0.7 rounds to just under the
\* integer 7n/10 (0.7 is stored as 0.69999999999999995...).
RoundsBelow == { 90, 170, 180 }

\* Math.floor(n * 0.7), for n below 330.
floorOfSeventyPercent(n) ==
  IF n \in RoundsBelow THEN (7 * n) \div 10 - 1 ELSE (7 * n) \div 10

\* GridCanvas.js: shaft is the first Math.floor(n * 0.7) samples, head the rest.
isArrow(stroke) ==
  IF Len(stroke) < 6 THEN FALSE
  ELSE LET shaftEnd == floorOfSeventyPercent(Len(stroke))
           shaft == SubSeq(stroke, 1, shaftEnd)
           head == SubSeq(stroke, shaftEnd + 1, Len(stroke))
       IN isLine(shaft) /\ isTriangle(head)

(***************************************************************************)
(* The gestures the pointer draws.                                         *)
(***************************************************************************)
Gestures ==
  { << Pt(0, 0), Pt(100, 100) >>,
    << Pt(0, 0), Pt(50, 0), Pt(50, 50), Pt(0, 50), Pt(0, 2) >>,
    << Pt(30, 0), Pt(70, 0), Pt(100, 30), Pt(100, 70), Pt(70, 100),
       Pt(30, 100), Pt(0, 70), Pt(0, 30), Pt(30, 2) >>,
    << Pt(0, 0), Pt(40, 30), Pt(80, 0), Pt(100, 40) >>,
    << Pt(0, 0), Pt(50, 5), Pt(100, 0) >>,
    << Pt(0, 0), Pt(100, 0), Pt(100, 10), Pt(0, 10), Pt(0, 3) >>,
    << Pt(10, 10), Pt(10, 10) >> }

Prefixes == UNION { { SubSeq(g, 1, n) : n \in 1..Len(g) } : g \in Gestures }

StartPoints == { First(g) : g \in Gestures }
Points == UNION { { g[i] : i \in DOMAIN g } : g \in Gestures }

(***************************************************************************)
(* The contour pipeline (OpenCV.js), a collaborator: what one run of it on *)
(* the raster of a stroke can come to.                                     *)
(***************************************************************************)
\* What cv reports of one traced contour: the polygon approxPolyDP gives, the
\* contour's area and perimeter in pixels, and its minimum enclosing circle.
Contours ==
  { [approx |-> << Pt(0, 0), Pt(50, 0), Pt(25, 40) >>,
     area |-> 1000, perimeter |-> 145, center |-> Pt(25, 13), radius |-> 29],
    [approx |-> << Pt(0, 0), Pt(50, 0), Pt(50, 50), Pt(0, 50) >>,
     area |-> 2500, perimeter |-> 200, center |-> Pt(25, 25), radius |-> 36],
    [approx |-> << Pt(30, 0), Pt(70, 0), Pt(100, 30), Pt(100, 70), Pt(70, 100),
                   Pt(30, 100), Pt(0, 70), Pt(0, 30) >>,
     area |-> 8200, perimeter |-> 330, center |-> Pt(50, 50), radius |-> 54],
    [approx |-> << Pt(0, 0), Pt(40, 30), Pt(80, 0), Pt(100, 40), Pt(60, 20), Pt(20, 20) >>,
     area |-> 900, perimeter |-> 300, center |-> Pt(50, 20), radius |-> 54] }

RECURSIVE SeqsUpTo(_, _)
SeqsUpTo(S, n) ==
  IF n = 0 THEN { << >> }
  ELSE LET shorter == SeqsUpTo(S, n - 1)
       IN shorter \cup { Append(q, e) : q \in shorter, e \in S }

\* rasterThrow: the temporary canvas fails, outside detectShapes;
\* traceThrow: a cv call throws inside detectShapes (cv undefined included);
\* contours: findContours returns these, in order.
PipelineOutcomes ==
  { [kind |-> "rasterThrow"], [kind |-> "traceThrow"] }
  \cup { [kind |-> "contours", contours |-> cs] : cs \in SeqsUpTo(Contours, MaxContours) }

\* Without the script, cv is undefined and its first use throws.
OutcomesWhen(loaded) ==
  IF loaded THEN PipelineOutcomes
  ELSE { [kind |-> "rasterThrow"], [kind |-> "traceThrow"] }

\* (4 * Math.PI * area) / (perimeter * perimeter) > 0.85, with pi as 355/113.
circularityExceeds(area, perimeter) ==
  4 * 355 * area * 100 > 85 * 113 * perimeter * perimeter

getVertices(approx) == approx

classifyShape(contour) ==
  LET verticesCount == Len(contour.approx)
  IN IF verticesCount = 3
       THEN [type |-> "triangle", vertices |-> getVertices(contour.approx)]
     ELSE IF verticesCount = 4
       THEN [type |-> "rectangle", vertices |-> getVertices(contour.approx),
             boundingRect |-> getBoundingBox(contour.approx)]
     ELSE IF circularityExceeds(contour.area, contour.perimeter)
       THEN [type |-> "circle", center |-> contour.center, radius |-> contour.radius]
     ELSE [type |-> "unknown"]

\* The shapes of the contours that are not unknown, in trace order; none when a
\* cv call throws, which the function catches.
detectShapes(outcome) ==
  IF outcome.kind = "contours"
    THEN SelectSeq([i \in DOMAIN outcome.contours |-> classifyShape(outcome.contours[i])],
                   LAMBDA sh : sh.type # "unknown")
    ELSE << >>

(***************************************************************************)
(* detectShape, per variant.  The result holds the shape returned, the     *)
(* calls made in order, and what became of the contour pipeline.           *)
(***************************************************************************)
Freehand == [type |-> "freehand"]

\* No temporary canvas was painted.
NoRaster == << >>

Decision(shape, calls, pipeline) ==
  [shape |-> shape, calls |-> calls, pipeline |-> pipeline, thrown |-> FALSE,
   raster |-> NoRaster]

\* The temporary canvas starting as a copy of the live one, with the ink and
\* the shapes it shows.
tempCanvasOverLive(stroke) ==
  << [op |-> "drawImage", ink |-> canvas.ink, shapes |-> canvas.shapes],
     [op |-> "stroke", points |-> stroke, strokeStyle |-> "#000000", lineWidth |-> 2] >>

\* part_003 lines 826-843: what detectShape paints on the canvas it creates
\* for detectShapes: a white fill, then the stroke alone, black, 2 wide.
tempCanvas(stroke) ==
  << [op |-> "fillRect", fillStyle |-> "#ffffff"],
     [op |-> "stroke", points |-> stroke, strokeStyle |-> "#000000", lineWidth |-> 2] >>

\* The decision taken on the temporary canvas of the stroke.
onTempCanvas(stroke, d) == [d EXCEPT !.raster = tempCanvas(stroke)]

\* detectShapeFallback testing the circle before the rectangle.
detectShapeFallbackCircleFirst(stroke) ==
  IF isCircle(stroke)
    THEN Decision([type |-> "circle", center |-> calculateCenter(stroke),
                   radius |-> average(radii(stroke))],
                  << "detectShapeFallback", "isCircle" >>, "fallback")
  ELSE IF isRectangle(stroke)
    THEN Decision([type |-> "rectangle", boundingRect |-> getBoundingBox(stroke)],
                  << "detectShapeFallback", "isCircle", "isRectangle" >>, "fallback")
  ELSE Decision(Freehand, << "detectShapeFallback", "isCircle", "isRectangle" >>, "fallback")

\* part_002, lines 314-329: rectangle, then circle.
detectShapeFallback(stroke) ==
  IF isRectangle(stroke)
    THEN Decision([type |-> "rectangle", boundingRect |-> getBoundingBox(stroke)],
                  << "detectShapeFallback", "isRectangle" >>, "fallback")
  ELSE IF isCircle(stroke)
    THEN Decision([type |-> "circle", center |-> calculateCenter(stroke),
                   radius |-> average(radii(stroke))],
                  << "detectShapeFallback", "isRectangle", "isCircle" >>, "fallback")
  ELSE Decision(Freehand, << "detectShapeFallback", "isRectangle", "isCircle" >>, "fallback")

\* fromContours taking the last shape found instead of the first.
fromContoursLastShape(outcome) ==
  LET shapes == detectShapes(outcome)
  IN IF Len(shapes) > 0
       THEN Decision(shapes[Len(shapes)], << "rasterize", "detectShapes" >>, "shape")
       ELSE Decision(Freehand, << "rasterize", "detectShapes" >>,
                     IF outcome.kind = "traceThrow" THEN "traceThrow" ELSE "noShape")

\* The try block both contour variants share: rasterize the stroke, trace it,
\* take the first shape.
fromContours(outcome) ==
  LET shapes == detectShapes(outcome)
  IN IF Len(shapes) > 0
       THEN Decision(shapes[1], << "rasterize", "detectShapes" >>, "shape")
       ELSE Decision(Freehand, << "rasterize", "detectShapes" >>,
                     IF outcome.kind = "traceThrow" THEN "traceThrow" ELSE "noShape")

Then(calls, d) == [d EXCEPT !.calls = calls \o d.calls]

\* tryFinal without its catch: the throw leaves detectShape.
tryFinalUncaught(outcome) ==
  IF outcome.kind = "rasterThrow"
    THEN [calls |-> << "rasterize" >>, pipeline |-> "rasterThrow", thrown |-> TRUE,
          raster |-> NoRaster]
  ELSE fromContours(outcome)

\* What the try block does with one outcome of the pipeline, part_003 lines
\* 824-860: a throw while rasterizing reaches the catch, which returns freehand.
tryFinal(outcome) ==
  IF outcome.kind = "rasterThrow"
    THEN Decision(Freehand, << "rasterize" >>, "rasterThrow")
  ELSE fromContours(outcome)

\* part_002 lines 275-311: the catch asks detectShapeFallback.
tryContour(stroke, outcome) ==
  IF outcome.kind = "rasterThrow"
    THEN Then(<< "rasterize" >>,
              [detectShapeFallback(stroke) EXCEPT !.pipeline = "rasterThrow"])
  ELSE fromContours(outcome)

\* detectShapeFinal asking detectShapeFallback when the trace finds no shape.
detectShapeFinalWithFallback(stroke, loaded) ==
  IF isLine(stroke)
    THEN { Decision([type |-> "line", stroke |-> stroke], << "isLine" >>, "notRun") }
  ELSE { IF tryFinal(outcome).pipeline = "noShape"
           THEN [detectShapeFallback(stroke) EXCEPT
                   !.pipeline = "noShape",
                   !.calls = << "isLine", "rasterize", "detectShapes" >> \o @]
           ELSE onTempCanvas(stroke, Then(<< "isLine" >>, tryFinal(outcome))) :
             outcome \in OutcomesWhen(loaded) }

\* part_003, lines 811-861.  The decisions the call can return, one for each
\* outcome the pipeline can have; the flag is only logged.
detectShapeFinal(stroke, loaded) ==
  IF isLine(stroke)
    THEN { Decision([type |-> "line", stroke |-> stroke], << "isLine" >>, "notRun") }
  ELSE { onTempCanvas(stroke, Then(<< "isLine" >>, tryFinal(outcome))) :
           outcome \in OutcomesWhen(loaded) }

\* part_002, lines 261-312.
detectShapeContour(stroke, loaded) ==
  IF isLine(stroke)
    THEN { Decision([type |-> "line", stroke |-> stroke], << "isLine" >>, "notRun") }
  ELSE IF ~loaded
    THEN { Then(<< "isLine" >>, detectShapeFallback(stroke)) }
  ELSE { onTempCanvas(stroke, Then(<< "isLine" >>, tryContour(stroke, outcome))) :
           outcome \in OutcomesWhen(loaded) }

\* GridCanvas.js, lines 468-492: line, circle, rectangle, arrow.
detectShapeHeuristic(stroke) ==
  IF isLine(stroke)
    THEN Decision([type |-> "line"], << "isLine" >>, "notRun")
  ELSE IF isCircleVariance(stroke)
    THEN Decision([type |-> "circle"], << "isLine", "isCircle" >>, "notRun")
  ELSE IF isRectangleCorners(stroke)
    THEN Decision([type |-> "rectangle"], << "isLine", "isCircle", "isRectangle" >>, "notRun")
  ELSE IF isArrow(stroke)
    THEN Decision([type |-> "arrow"],
                  << "isLine", "isCircle", "isRectangle", "isArrow" >>, "notRun")
  ELSE Decision(Freehand, << "isLine", "isCircle", "isRectangle", "isArrow" >>, "notRun")

\* The decisions detectShape can return in a variant of the component.
detectShape(v, stroke, loaded) ==
  IF v = "final" THEN detectShapeFinal(stroke, loaded)
  ELSE IF v = "contour" THEN detectShapeContour(stroke, loaded)
  ELSE { detectShapeHeuristic(stroke) }

(***************************************************************************)
(* Rendering.  A graphics state G is the 2d context as a handler leaves    *)
(* it: its style, what the canvas shows, the calls issued, and whether a   *)
(* call threw.                                                             *)
(***************************************************************************)
InkStyle == [strokeStyle |-> "#000000", lineWidth |-> "2"]
GridStyle == [strokeStyle |-> "#f0f0f0", lineWidth |-> "0.5"]
RecognizedStyle == [strokeStyle |-> "#ff0000", lineWidth |-> "3"]

\* grid: the grid lines are painted; ink: the stroke cycles whose raw ink is
\* painted; shapes: the clean primitives painted, in order.
BlankCanvas == [grid |-> FALSE, ink |-> {}, shapes |-> << >>]

Gfx(style, cv, log) == [style |-> style, canvas |-> cv, log |-> log, thrown |-> FALSE]

clearRect(G) ==
  [G EXCEPT !.canvas = BlankCanvas, !.log = Append(@, [op |-> "clearRect"])]

\* Paints the lines in the grid style and resets the style for drawing.
drawGrid(G) ==
  [G EXCEPT !.canvas.grid = TRUE,
            !.log = Append(@, [op |-> "drawGrid", style |-> GridStyle]),
            !.style = InkStyle]

\* ctx.stroke() of the path built for one primitive, in the current style.
strokePrimitive(G, prim) ==
  [G EXCEPT !.canvas.shapes = Append(@, prim),
            !.log = Append(@, [op |-> "stroke", prim |-> prim, style |-> G.style])]

\* The fields drawCleanShape reads of a shape of this type.
FieldsRead(type) ==
  IF type = "line" THEN { "stroke" }
  ELSE IF type \in { "rectangle", "square", "triangle" } THEN { "vertices" }
  ELSE IF type = "circle" THEN { "center", "radius" }
  ELSE {}

\* The path drawCleanShape builds.
Primitive(shape) ==
  IF shape.type = "line"
    THEN [kind |-> "segment", pts |-> << First(shape.stroke), Last(shape.stroke) >>]
  ELSE IF shape.type \in { "rectangle", "square", "triangle" }
    THEN [kind |-> "polygon", pts |-> shape.vertices]
  ELSE IF shape.type = "circle"
    THEN [kind |-> "arc", pts |-> << shape.center >>, radius |-> shape.radius]
  ELSE [kind |-> "empty"]

\* drawCleanShape without the reset of the style at its end.
drawCleanShapeLeavingStyle(G, shape) ==
  IF G.thrown THEN G
  ELSE IF ~(FieldsRead(shape.type) \subseteq DOMAIN shape)
    THEN [G EXCEPT !.style = RecognizedStyle, !.thrown = TRUE]
  ELSE strokePrimitive([G EXCEPT !.style = RecognizedStyle], Primitive(shape))

\* part_002 lines 347-387, part_003 lines 890-930.  Reading a field of an
\* undefined member throws, with the style left as set.
drawCleanShape(G, shape) ==
  IF G.thrown THEN G
  ELSE IF ~(FieldsRead(shape.type) \subseteq DOMAIN shape)
    THEN [G EXCEPT !.style = RecognizedStyle, !.thrown = TRUE]
  ELSE [strokePrimitive([G EXCEPT !.style = RecognizedStyle], Primitive(shape))
          EXCEPT !.style = InkStyle]

RECURSIVE drawEach(_, _)
drawEach(G, shapes) ==
  IF shapes = << >> THEN G
  ELSE drawEach(drawCleanShape(G, Head(shapes)), Tail(shapes))

\* drawRecognizedShape leaving the ledger out of the redraw.
drawRecognizedShapeNewOnly(G, ledger, newShape) ==
  drawCleanShape(drawGrid(clearRect(G)), newShape)

\* part_002 lines 331-345, part_003 lines 870-884.
drawRecognizedShape(G, ledger, newShape) ==
  drawCleanShape(drawEach(drawGrid(clearRect(G)), ledger), newShape)

\* What GridCanvas.js draws for a type and a stroke, lines 499-532.
primitivesOf(type, stroke) ==
  IF type = "line"
    THEN << [kind |-> "segment", pts |-> << First(stroke), Last(stroke) >>] >>
  ELSE IF type = "rectangle"
    THEN << [kind |-> "rect", bounds |-> getBoundingBox(stroke)] >>
  ELSE IF type = "circle"
    THEN << [kind |-> "arc", pts |-> << calculateCenter(stroke) >>,
             radius |-> average(radii(stroke))] >>
  ELSE IF type = "arrow"
    THEN LET shaftEnd == (7 * Len(stroke)) \div 10 + 1
         IN << [kind |-> "segment", pts |-> << First(stroke), stroke[shaftEnd] >>],
               [kind |-> "polygon",
                pts |-> << stroke[shaftEnd], Last(stroke),
                           Pt(stroke[shaftEnd].x - 10, stroke[shaftEnd].y) >>] >>
  ELSE << >>

RECURSIVE strokeEach(_, _)
strokeEach(G, prims) ==
  IF prims = << >> THEN G
  ELSE strokeEach(strokePrimitive(G, Head(prims)), Tail(prims))

\* GridCanvas.js lines 494-537: paints the new shape over what is there.
drawRecognizedShapeHeuristic(G, type, stroke) ==
  [strokeEach([G EXCEPT !.style = RecognizedStyle], primitivesOf(type, stroke))
     EXCEPT !.style = InkStyle]

(***************************************************************************)
(* The component: mount, the script's load events, the pointer handlers.   *)
(***************************************************************************)
Variants == { "heuristic", "contour", "final" }

\* The state once the mount effect has run: the context is set up and the grid
\* is drawn.  GridCanvas.js loads no script.
\* currentPath.current is null.
NoPath == [gesture |-> 0, points |-> << >>]

\* GridCanvas of part_001 is not on screen.
NoMobileCanvas ==
  /\ mounted = FALSE
  /\ paths = << >>
  /\ currentPath = NoPath
  /\ released = << >>

Init ==
  /\ NoMobileCanvas
  /\ variant \in Variants
  /\ opencvLoaded = FALSE
  /\ script = IF variant = "heuristic" THEN "none" ELSE "loading"
  /\ isDrawing = FALSE
  /\ currentStroke = << >>
  /\ recognizedShapes = << >>
  /\ ctxStyle = drawGrid(Gfx(InkStyle, BlankCanvas, << >>)).style
  /\ canvas = drawGrid(Gfx(InkStyle, BlankCanvas, << >>)).canvas
  /\ renderLog = drawGrid(Gfx(InkStyle, BlankCanvas, << >>)).log
  /\ callLog = << >>
  /\ lastEvent = [handler |-> "mount"]
  /\ nDown = 0
  /\ nRecognized = 0
  /\ nFreehand = 0

scriptOnload ==
  /\ script = "loading"
  /\ script' = "loaded"
  /\ opencvLoaded' = TRUE
  /\ renderLog' = << >>
  /\ callLog' = << >>
  /\ lastEvent' = [handler |-> "onload"]
  /\ UNCHANGED << mobile, variant, isDrawing, currentStroke, recognizedShapes, ctxStyle,
                  canvas, nDown, nRecognized, nFreehand >>

scriptOnerror ==
  /\ script = "loading"
  /\ script' = "failed"
  /\ renderLog' = << >>
  /\ callLog' = << >>
  /\ lastEvent' = [handler |-> "onerror"]
  /\ UNCHANGED << mobile, variant, opencvLoaded, isDrawing, currentStroke, recognizedShapes,
                  ctxStyle, canvas, nDown, nRecognized, nFreehand >>

handleMouseDown(pos) ==
  /\ nDown < MaxCycles
  /\ isDrawing' = TRUE
  /\ currentStroke' = << pos >>
  /\ renderLog' = << [op |-> "beginPath"], [op |-> "moveTo", to |-> pos] >>
  /\ callLog' = << >>
  /\ lastEvent' = [handler |-> "mousedown"]
  /\ nDown' = nDown + 1
  /\ UNCHANGED << mobile, variant, opencvLoaded, script, recognizedShapes, ctxStyle, canvas,
                  nRecognized, nFreehand >>

\* The pointer follows one of the gestures.
handleMouseMove(pos) ==
  /\ callLog' = << >>
  /\ IF ~isDrawing
       THEN /\ renderLog' = << >>
            /\ lastEvent' = [handler |-> "mousemove", drawn |-> FALSE]
            /\ UNCHANGED << currentStroke, canvas >>
       ELSE /\ Append(currentStroke, pos) \in Prefixes
            /\ currentStroke' = Append(currentStroke, pos)
            /\ canvas' = [canvas EXCEPT !.ink = @ \cup { nDown }]
            /\ renderLog' = << [op |-> "lineTo", to |-> pos],
                               [op |-> "stroke", style |-> ctxStyle] >>
            /\ lastEvent' = [handler |-> "mousemove", drawn |-> TRUE]
  /\ UNCHANGED << mobile, variant, opencvLoaded, script, isDrawing, recognizedShapes, ctxStyle,
                  nDown, nRecognized, nFreehand >>

\* The shape as the handler appends it to recognizedShapes.
ledgerEntry(v, shape, stroke) ==
  IF v = "heuristic" THEN [type |-> shape.type, stroke |-> stroke] ELSE shape

\* The redraw the handler asks for on a recognized shape.
redraw(v, G, ledger, shape, stroke) ==
  IF v = "heuristic" THEN drawRecognizedShapeHeuristic(G, shape.type, stroke)
  ELSE drawRecognizedShape(G, ledger, shape)

\* setRecognizedShapes putting the new shape in front.
setRecognizedShapesPrepending(prev, detectedShape) == << detectedShape >> \o prev

\* setRecognizedShapes called with the new shape alone.
setRecognizedShapesReplacing(prev, detectedShape) == << detectedShape >>

\* setRecognizedShapes(prev => [...prev, detectedShape])
setRecognizedShapes(prev, detectedShape) == Append(prev, detectedShape)

\* A throw that leaves detectShape leaves the handler at once.
abortStroke(d) ==
  /\ callLog' = d.calls
  /\ renderLog' = << >>
  /\ lastEvent' = [handler |-> "mouseup", classified |-> TRUE, stroke |-> currentStroke,
                   pipeline |-> d.pipeline, loaded |-> opencvLoaded, completed |-> FALSE,
                   raster |-> d.raster]
  /\ UNCHANGED << recognizedShapes, isDrawing, currentStroke, ctxStyle, canvas,
                  nRecognized, nFreehand >>

\* finishStroke without the test of the type: a freehand stroke is redrawn and
\* appended like any shape.
finishStrokeRedrawingAll(d) ==
  LET G == redraw(variant, Gfx(ctxStyle, canvas, << >>), recognizedShapes, d.shape,
                  currentStroke)
  IN /\ recognizedShapes' =
          setRecognizedShapes(recognizedShapes,
                              ledgerEntry(variant, d.shape, currentStroke))
     /\ isDrawing' = FALSE
     /\ currentStroke' = << >>
     /\ ctxStyle' = G.style
     /\ canvas' = G.canvas
     /\ renderLog' = G.log
     /\ callLog' = Append(d.calls, "drawRecognizedShape")
     /\ lastEvent' = [handler |-> "mouseup", classified |-> TRUE, stroke |-> currentStroke,
                      shape |-> d.shape, pipeline |-> d.pipeline, loaded |-> opencvLoaded,
                      completed |-> TRUE, raster |-> d.raster]
     /\ nRecognized' = nRecognized + 1
     /\ nFreehand' = nFreehand

\* finishStroke without setIsDrawing(false) and setCurrentStroke([]): the stroke
\* stays in progress after the release.
finishStrokeKeepDrawing(d) ==
  LET recognized == d.shape.type # "freehand"
      G0 == Gfx(ctxStyle, canvas, << >>)
      G == IF recognized
             THEN redraw(variant, G0, recognizedShapes, d.shape, currentStroke)
             ELSE G0
  IN /\ recognizedShapes' =
          IF recognized /\ ~G.thrown
            THEN setRecognizedShapes(recognizedShapes,
                                     ledgerEntry(variant, d.shape, currentStroke))
            ELSE recognizedShapes
     /\ UNCHANGED << isDrawing, currentStroke >>
     /\ ctxStyle' = G.style
     /\ canvas' = G.canvas
     /\ renderLog' = G.log
     /\ callLog' = IF recognized THEN Append(d.calls, "drawRecognizedShape") ELSE d.calls
     /\ lastEvent' = [handler |-> "mouseup", classified |-> TRUE, stroke |-> currentStroke,
                      shape |-> d.shape, pipeline |-> d.pipeline, loaded |-> opencvLoaded,
                      completed |-> ~G.thrown, raster |-> d.raster]
     /\ nRecognized' = IF recognized THEN nRecognized + 1 ELSE nRecognized
     /\ nFreehand' = IF recognized THEN nFreehand ELSE nFreehand + 1

\* What the handler does once detectShape has returned d; a throw in the redraw
\* leaves the handler before any state is set.
finishStroke(d) ==
  LET recognized == d.shape.type # "freehand"
      G0 == Gfx(ctxStyle, canvas, << >>)
      G == IF recognized
             THEN redraw(variant, G0, recognizedShapes, d.shape, currentStroke)
             ELSE G0
  IN /\ recognizedShapes' =
          IF recognized /\ ~G.thrown
            THEN setRecognizedShapes(recognizedShapes,
                                     ledgerEntry(variant, d.shape, currentStroke))
            ELSE recognizedShapes
     /\ isDrawing' = IF G.thrown THEN isDrawing ELSE FALSE
     /\ currentStroke' = IF G.thrown THEN currentStroke ELSE << >>
     /\ ctxStyle' = G.style
     /\ canvas' = G.canvas
     /\ renderLog' = G.log
     /\ callLog' = IF recognized THEN Append(d.calls, "drawRecognizedShape") ELSE d.calls
     /\ lastEvent' = [handler |-> "mouseup", classified |-> TRUE, stroke |-> currentStroke,
                      shape |-> d.shape, pipeline |-> d.pipeline, loaded |-> opencvLoaded,
                      completed |-> ~G.thrown, raster |-> d.raster]
     /\ nRecognized' = IF recognized THEN nRecognized + 1 ELSE nRecognized
     /\ nFreehand' = IF recognized THEN nFreehand ELSE nFreehand + 1

\* handleMouseUp classifying a stroke of one point as well.
handleMouseUpAnyStroke ==
  /\ IF isDrawing /\ Len(currentStroke) > 0
       THEN /\ nRecognized + nFreehand < MaxCycles
            /\ \E d \in detectShape(variant, currentStroke, opencvLoaded) :
                 IF d.thrown THEN abortStroke(d) ELSE finishStroke(d)
       ELSE /\ isDrawing' = FALSE
            /\ currentStroke' = << >>
            /\ renderLog' = << >>
            /\ callLog' = << >>
            /\ lastEvent' = [handler |-> "mouseup", classified |-> FALSE,
                             stroke |-> currentStroke, completed |-> TRUE]
            /\ UNCHANGED << recognizedShapes, ctxStyle, canvas, nRecognized, nFreehand >>
  /\ UNCHANGED << mobile, variant, opencvLoaded, script, nDown >>

\* part_003 lines 959-972, part_002 lines 404-417, GridCanvas.js lines 555-567.
handleMouseUp ==
  /\ IF isDrawing /\ Len(currentStroke) > 1
       THEN /\ nRecognized + nFreehand < MaxCycles
            /\ \E d \in detectShape(variant, currentStroke, opencvLoaded) :
                 IF d.thrown THEN abortStroke(d) ELSE finishStroke(d)
       ELSE /\ isDrawing' = FALSE
            /\ currentStroke' = << >>
            /\ renderLog' = << >>
            /\ callLog' = << >>
            /\ lastEvent' = [handler |-> "mouseup", classified |-> FALSE,
                             stroke |-> currentStroke, completed |-> TRUE]
            /\ UNCHANGED << recognizedShapes, ctxStyle, canvas, nRecognized, nFreehand >>
  /\ UNCHANGED << mobile, variant, opencvLoaded, script, nDown >>

\* handleMouseLeave emptying the stroke without setIsDrawing(false).
handleMouseLeaveKeepDrawing ==
  /\ currentStroke' = << >>
  /\ renderLog' = << >>
  /\ callLog' = << >>
  /\ lastEvent' = [handler |-> "mouseleave"]
  /\ UNCHANGED << mobile, variant, opencvLoaded, script, isDrawing, recognizedShapes, ctxStyle,
                  canvas, nDown, nRecognized, nFreehand >>

\* part_003 lines 977-981, part_002 lines 420-423, GridCanvas.js lines 569-572.
handleMouseLeave ==
  /\ isDrawing' = FALSE
  /\ currentStroke' = << >>
  /\ renderLog' = << >>
  /\ callLog' = << >>
  /\ lastEvent' = [handler |-> "mouseleave"]
  /\ UNCHANGED << mobile, variant, opencvLoaded, script, recognizedShapes, ctxStyle, canvas,
                  nDown, nRecognized, nFreehand >>

Next ==
  \/ scriptOnload
  \/ scriptOnerror
  \/ \E pos \in StartPoints : handleMouseDown(pos)
  \/ \E pos \in Points : handleMouseMove(pos)
  \/ handleMouseUp
  \/ handleMouseLeave

Spec == Init /\ [][Next]_vars

(***************************************************************************)
(* The classifiers on their own: a stroke is handed to a tier or to the    *)
(* predicates directly, without the pointer.  currentStroke holds the      *)
(* stroke and lastEvent what was called on it with what it returned; the   *)
(* component does not run.                                                 *)
(***************************************************************************)
Sides == { 4, 10, 50, 100 }   \* widths and heights of the rectangles drawn
Densities == { 1, 2 }         \* samples a side
Gaps == { 0, 2 }              \* how far above its start the stroke ends

\* The n samples from p (left out) to q (included) of a straight segment.
SideSamples(p, q, n) ==
  [k \in 1..n |-> Pt(p.x + ((q.x - p.x) * k) \div n, p.y + ((q.y - p.y) * k) \div n)]

\* The axis-aligned rectangle of width w and height h drawn from its corner
\* (0, 0) around to (0, gap).
PerfectRectangle(w, h, n, gap) ==
  << Pt(0, 0) >> \o SideSamples(Pt(0, 0), Pt(w, 0), n) \o SideSamples(Pt(w, 0), Pt(w, h), n)
     \o SideSamples(Pt(w, h), Pt(0, h), n) \o SideSamples(Pt(0, h), Pt(0, gap), n)

PerfectRectangles ==
  { PerfectRectangle(w, h, n, gap) : w \in Sides, h \in Sides, n \in Densities, gap \in Gaps }

\* Strokes of up to 6 samples on one horizontal or one vertical line, the
\* strokes that stay on one point among them.
FlatStrokes ==
  (SeqsUpTo({ Pt(0, 0), Pt(6, 0) }, 6) \cup SeqsUpTo({ Pt(0, 0), Pt(0, 6) }, 6)) \ { << >> }

\* A shaft of ten samples heading right, then the head given.
Arrow(head) == [k \in 1..10 |-> Pt(10 * (k - 1), 50)] \o head

\* Arrows whose head turns three times and twice, one with a bent shaft, and
\* a stroke of six samples.
Arrows ==
  { Arrow(<< Pt(100, 50), Pt(80, 30), Pt(100, 50), Pt(80, 70), Pt(100, 50) >>),
    Arrow(<< Pt(100, 50), Pt(80, 30), Pt(100, 50), Pt(80, 70), Pt(60, 90) >>),
    << Pt(0, 0), Pt(0, 50) >> \o
      Arrow(<< Pt(100, 50), Pt(80, 30), Pt(100, 50), Pt(80, 70), Pt(100, 50), Pt(80, 30) >>),
    << Pt(0, 0), Pt(10, 0), Pt(20, 0), Pt(30, 0), Pt(30, 10), Pt(20, 0) >> }

\* Ninety samples: 63 along a line, a turn at each of the next three, then
\* straight down.
LongArrow ==
  [k \in 1..63 |-> Pt(k - 1, 50)]
    \o << Pt(70, 50), Pt(70, 60), Pt(80, 60), Pt(80, 70) >>
    \o [k \in 1..23 |-> Pt(80, 70 + k)]

\* Short strokes: a diagonal of four samples 8.5 px long, and strokes heading
\* left that bend a little or turn by a right angle.
Bends ==
  { << Pt(0, 0), Pt(2, 2), Pt(4, 4), Pt(6, 6) >>,
    << Pt(20, 0), Pt(10, 1), Pt(0, 0) >>,
    << Pt(20, 1), Pt(10, 0), Pt(0, 1) >>,
    << Pt(20, 5), Pt(10, 5), Pt(0, 4) >>,
    << Pt(0, 0), Pt(10, 1), Pt(20, 0) >>,
    << Pt(20, 0), Pt(10, 0), Pt(10, 10) >>,
    << Pt(20, 0), Pt(10, 0), Pt(10, 10), Pt(0, 9), Pt(0, 20) >> }

TestStrokes ==
  PerfectRectangles \cup FlatStrokes \cup Arrows \cup { LongArrow } \cup Bends \cup Gestures

\* part_003 lines 303-320, the fallback of the first contour variant: line,
\* circle, rectangle, with the predicates of part_003 lines 136-181.
detectShapeFallbackLegacy(stroke) ==
  IF isLine(stroke) THEN "line"
  ELSE IF isCircle(stroke) THEN "circle"
  ELSE IF isRectangle(stroke) THEN "rectangle"
  ELSE "freehand"

\* The divisors each predicate divides by on the path the stroke takes
\* through it, in the order of the divisions.
isLineDivisors(stroke) ==
  IF Len(stroke) < 2 THEN << >>
  ELSE IF calculateTotalDistance(stroke) = 0 THEN << >>
  ELSE << calculateTotalDistance(stroke) >>

\* GridCanvas.js lines 309-344: bounds.width / bounds.height.
isRectangleDivisors(stroke) ==
  IF Len(stroke) < 4 THEN << >>
  ELSE IF ~isClosed(stroke) THEN << >>
  ELSE << getBoundingBox(stroke).height >>

\* part_003 lines 700-719: calculateCenter and average divide by the number
\* of samples, then bounds.width / bounds.height.
isCircleDivisors(stroke) ==
  IF Len(stroke) < 6 THEN << >>
  ELSE IF ~isClosed(stroke) THEN << >>
  ELSE IF average(radii(stroke)) = 0 THEN << Len(stroke), Len(stroke), Len(stroke) >>
  ELSE << Len(stroke), Len(stroke), Len(stroke), getBoundingBox(stroke).height >>

ClassifierInit ==
  /\ NoMobileCanvas
  /\ currentStroke \in TestStrokes
  /\ lastEvent = [handler |-> "stroke"]
  /\ variant = "heuristic"
  /\ opencvLoaded = FALSE
  /\ script = "none"
  /\ isDrawing = FALSE
  /\ recognizedShapes = << >>
  /\ ctxStyle = InkStyle
  /\ canvas = BlankCanvas
  /\ renderLog = << >>
  /\ callLog = << >>
  /\ nDown = 0
  /\ nRecognized = 0
  /\ nFreehand = 0

\* The stroke has not been handed to a classifier yet.
Unclassified == lastEvent.handler = "stroke"

ClassifierFrame ==
  UNCHANGED << mobile, variant, opencvLoaded, isDrawing, currentStroke, recognizedShapes,
               ctxStyle, canvas, renderLog, script, nDown, nRecognized, nFreehand >>

\* GridCanvas.js: detectShape, and what drawRecognizedShape strokes for it.
applyDetectShape ==
  /\ Unclassified
  /\ Len(currentStroke) > 1
  /\ callLog' = detectShapeHeuristic(currentStroke).calls
  /\ lastEvent' = [handler |-> "detectShape", stroke |-> currentStroke,
                   type |-> detectShapeHeuristic(currentStroke).shape.type,
                   drawn |-> primitivesOf(detectShapeHeuristic(currentStroke).shape.type,
                                          currentStroke)]
  /\ ClassifierFrame

\* part_003 lines 303-320; drawCleanShape (340-387) strokes the same
\* primitives for line, rectangle and circle as GridCanvas.js does.
applyDetectShapeFallback ==
  /\ Unclassified
  /\ Len(currentStroke) > 1
  /\ callLog' = << "detectShapeFallback" >>
  /\ lastEvent' = [handler |-> "detectShapeFallback", stroke |-> currentStroke,
                   type |-> detectShapeFallbackLegacy(currentStroke),
                   drawn |-> primitivesOf(detectShapeFallbackLegacy(currentStroke),
                                          currentStroke)]
  /\ ClassifierFrame

\* isLine and isRectangle of GridCanvas.js, isCircle of part_003.
applyPredicates ==
  /\ Unclassified
  /\ callLog' = << "isLine", "isRectangle", "isCircle" >>
  /\ lastEvent' = [handler |-> "predicates", stroke |-> currentStroke,
                   isLine |-> isLine(currentStroke),
                   isRectangle |-> isRectangleCorners(currentStroke),
                   isCircle |-> isCircle(currentStroke),
                   lineDivisors |-> isLineDivisors(currentStroke),
                   rectangleDivisors |-> isRectangleDivisors(currentStroke),
                   circleDivisors |-> isCircleDivisors(currentStroke)]
  /\ ClassifierFrame

\* part_002 lines 314-329, with the two predicates it asks.
applyFallbackOfContour ==
  /\ Unclassified
  /\ callLog' = detectShapeFallback(currentStroke).calls
  /\ lastEvent' = [handler |-> "fallback", stroke |-> currentStroke,
                   isRectangle |-> isRectangle(currentStroke),
                   isCircle |-> isCircle(currentStroke),
                   shape |-> detectShapeFallback(currentStroke).shape]
  /\ ClassifierFrame

\* part_003 lines 548-591 and 845-856: detectShapes on what findContours
\* traced, and the shape detectShape takes from it.
applyDetectShapes ==
  /\ Unclassified
  /\ \E outcome \in PipelineOutcomes :
     /\ outcome.kind = "contours"
     /\ callLog' = fromContours(outcome).calls
     /\ lastEvent' = [handler |-> "detectShapes", contours |-> outcome.contours,
                      shapes |-> detectShapes(outcome),
                      shape |-> fromContours(outcome).shape]
     /\ ClassifierFrame

\* The steps of detectShapes on the OpenCV heap: an object is made, a cv
\* function is called (and may throw), an object is deleted.
Make(obj) == [step |-> "new", obj |-> obj]
Call(fn) == [step |-> "call", fn |-> fn]
Delete(obj) == [step |-> "delete", obj |-> obj]
Mat(name, i) == [name |-> name, i |-> i]

\* One turn of the loop, part_003 lines 571-577 with classifyShape (509-540);
\* the loop of the earlier version (lines 76-82) never deletes the contour.
contourSteps(version, i) ==
  << Make(Mat("contour", i)), Call("arcLength"), Make(Mat("approx", i)),
     Call("approxPolyDP"), Call("contourArea"), Call("boundingRect"),
     Delete(Mat("approx", i)) >>
  \o (IF version = "final" THEN << Delete(Mat("contour", i)) >> ELSE << >>)

RECURSIVE loopSteps(_, _, _)
loopSteps(version, i, n) ==
  IF i > n THEN << >> ELSE contourSteps(version, i) \o loopSteps(version, i + 1, n)

\* detectShapes on a canvas in which findContours traces n contours.
detectShapesSteps(version, n) ==
  << Call("matFromImageData"), Make(Mat("src", 0)),
     Make(Mat("gray", 0)), Call("cvtColor"),
     Make(Mat("binary", 0)), Call("threshold"),
     Make(Mat("contours", 0)), Make(Mat("hierarchy", 0)), Call("findContours") >>
  \o loopSteps(version, 1, n)
  \o << Delete(Mat("src", 0)), Delete(Mat("gray", 0)), Delete(Mat("binary", 0)),
        Delete(Mat("contours", 0)), Delete(Mat("hierarchy", 0)) >>

\* The steps taken when the call at position throwAt throws (0: none does);
\* the catch returns [] and does nothing else.
stepsTaken(steps, throwAt) ==
  IF throwAt = 0 THEN steps ELSE SubSeq(steps, 1, throwAt - 1)

objectsOf(steps, kind) ==
  { steps[k].obj : k \in { j \in DOMAIN steps : steps[j].step = kind } }

\* part_003 lines 548-591 and 56-97: what detectShapes has allocated and
\* deleted when it returns.
applyDetectShapesOnHeap ==
  /\ Unclassified
  /\ \E version \in { "final", "earlier" }, n \in 0..MaxContours :
       LET steps == detectShapesSteps(version, n)
       IN \E throwAt \in { 0 } \cup { k \in DOMAIN steps : steps[k].step = "call" } :
            LET taken == stepsTaken(steps, throwAt)
            IN /\ callLog' = << "detectShapes" >>
               /\ lastEvent' = [handler |-> "heap", version |-> version, contours |-> n,
                                thrown |-> throwAt # 0,
                                allocated |-> objectsOf(taken, "new"),
                                deleted |-> objectsOf(taken, "delete")]
  /\ ClassifierFrame

\* GridCanvas.js lines 267-294 and 399-410.
applyFindCorners ==
  /\ Unclassified
  /\ callLog' = << "findCorners", "isTriangle", "isArrow" >>
  /\ lastEvent' = [handler |-> "findCorners", stroke |-> currentStroke,
                   corners |-> findCorners(currentStroke),
                   isTriangle |-> isTriangle(currentStroke),
                   isArrow |-> isArrow(currentStroke)]
  /\ ClassifierFrame

\* isRectangle and isCircle as GridCanvas.js (309-397) and as part_003
\* (681-719) define them.
applyShapePredicates ==
  /\ Unclassified
  /\ callLog' = << "isRectangle", "isCircle" >>
  /\ lastEvent' = [handler |-> "shapePredicates", stroke |-> currentStroke,
                   isRectangleCorners |-> isRectangleCorners(currentStroke),
                   isCircleVariance |-> isCircleVariance(currentStroke),
                   isRectangle |-> isRectangle(currentStroke),
                   isCircle |-> isCircle(currentStroke)]
  /\ ClassifierFrame

ClassifierNext ==
  \/ applyDetectShape
  \/ applyDetectShapeFallback
  \/ applyPredicates
  \/ applyFallbackOfContour
  \/ applyDetectShapes
  \/ applyFindCorners
  \/ applyShapePredicates
  \/ applyDetectShapesOnHeap

ClassifierSpec == ClassifierInit /\ [][ClassifierNext]_vars

(***************************************************************************)
(* The mobile canvas, GridCanvas of part_001: a PanResponder draws Skia     *)
(* paths.  A path is the samples of its gesture, with the number of the    *)
(* gesture that made it.                                                   *)
(***************************************************************************)
MobilePoints == { Pt(0, 0), Pt(10, 0), Pt(10, 10) }

\* The web canvas is not on screen.
web == << variant, opencvLoaded, isDrawing, currentStroke, recognizedShapes,
          ctxStyle, canvas, script, nRecognized, nFreehand >>

MobileInit ==
  /\ mounted = TRUE
  /\ paths = << >>
  /\ currentPath = NoPath
  /\ released = << >>
  /\ variant = "mobile"
  /\ opencvLoaded = FALSE
  /\ script = "none"
  /\ isDrawing = FALSE
  /\ currentStroke = << >>
  /\ recognizedShapes = << >>
  /\ ctxStyle = InkStyle
  /\ canvas = BlankCanvas
  /\ renderLog = << >>
  /\ callLog = << >>
  /\ lastEvent = [handler |-> "mount"]
  /\ nDown = 0
  /\ nRecognized = 0
  /\ nFreehand = 0

\* Skia.Path.Make().moveTo(x, y)
moveTo(gesture, pos) == [gesture |-> gesture, points |-> << pos >>]

\* path.lineTo(x, y)
lineTo(path, pos) == [path EXCEPT !.points = Append(@, pos)]

\* prev => [...prev.slice(0, -1), path.copy()]
replaceLast(prev, path) == Append(SubSeq(prev, 1, Len(prev) - 1), path)

\* The updater of the release, prev => [...prev, currentPath.current.copy()],
\* run while currentPath.current is ref: on null, copy is read of null and
\* the updater throws.
appendCopy(prev, ref) ==
  IF ref = NoPath THEN [thrown |-> TRUE, paths |-> prev]
  ELSE [thrown |-> FALSE, paths |-> Append(prev, ref)]

\* A finger comes down while none is.
onPanResponderGrant(pos) ==
  /\ mounted
  /\ currentPath = NoPath
  /\ nDown < MaxGestures
  /\ nDown' = nDown + 1
  /\ currentPath' = moveTo(nDown + 1, pos)
  /\ lastEvent' = [handler |-> "grant"]
  /\ UNCHANGED << mounted, paths, released, renderLog, callLog, web >>

\* The finger moves.  The updater reads currentPath.current, which is the
\* same path when setPaths is called and when the component renders next.
onPanResponderMove(pos) ==
  /\ mounted
  /\ currentPath # NoPath
  /\ Len(currentPath.points) < MaxSamples
  /\ currentPath' = lineTo(currentPath, pos)
  /\ paths' = replaceLast(paths, lineTo(currentPath, pos))
  /\ lastEvent' = [handler |-> "move"]
  /\ UNCHANGED << mounted, released, nDown, renderLog, callLog, web >>

\* The finger is lifted.  React runs the updater either at once, inside
\* setPaths (eager state), or when it renders after the handler, by when the
\* handler has set currentPath.current to null; an updater that throws while
\* rendering unmounts the component, there being no error boundary.
onPanResponderRelease ==
  /\ mounted
  /\ currentPath # NoPath
  /\ \E eager \in BOOLEAN :
       LET update == appendCopy(paths, IF eager THEN currentPath ELSE NoPath)
       IN /\ mounted' = ~update.thrown
          /\ paths' = IF update.thrown THEN << >> ELSE update.paths
          /\ lastEvent' = [handler |-> "release", eager |-> eager,
                           moved |-> Len(currentPath.points) > 1]
  /\ currentPath' = NoPath
  /\ released' = IF Len(currentPath.points) > 1 THEN Append(released, currentPath)
                 ELSE released
  /\ UNCHANGED << nDown, renderLog, callLog, web >>

MobileNext ==
  \/ \E pos \in MobilePoints : onPanResponderGrant(pos)
  \/ \E pos \in MobilePoints : onPanResponderMove(pos)
  \/ onPanResponderRelease

MobileSpec == MobileInit /\ [][MobileNext]_vars

(***************************************************************************)
(* Properties.  lastEvent records what the last handler did: after a       *)
(* mouse-up that reached detectShape it holds the stroke as released, the  *)
(* shape returned, how the contour pipeline ended and the flag as read.    *)
(***************************************************************************)
Released == lastEvent.handler = "mouseup"
Classified == Released /\ lastEvent.classified
Returned == Classified /\ "shape" \in DOMAIN lastEvent
Recognized == Returned /\ lastEvent.shape.type # "freehand"

\* distance(first, last) / pathLength > 0.9
StraightnessOver90(s) ==
  10 * distance(Fix(First(s)), Fix(Last(s))) > 9 * calculateTotalDistance(s)

Segment(s) == [kind |-> "segment", pts |-> << First(s), Last(s) >>]

\* C1: a released stroke of at least 2 points whose straightness ratio exceeds
\* 0.9 is classified a line, and the line drawn for it runs from the stroke's
\* first point to its last, whether the contour classifier is loaded or not.
C1_StraightStrokeIsLine ==
  (Classified /\ StraightnessOver90(lastEvent.stroke)) =>
     /\ Returned
     /\ lastEvent.shape.type = "line"
     /\ "stroke" \in DOMAIN lastEvent.shape => lastEvent.shape.stroke = lastEvent.stroke
     /\ canvas.shapes # << >>
     /\ Last(canvas.shapes) = Segment(lastEvent.stroke)

\* A three-point stroke with a small detour came out a line while the script
\* had not loaded.
C1_Witness ==
  /\ Classified
  /\ lastEvent.stroke = << Pt(0, 0), Pt(50, 5), Pt(100, 0) >>
  /\ ~lastEvent.loaded
  /\ variant = "final"
  /\ Last(canvas.shapes) = Segment(lastEvent.stroke)

\* C2: in the components of part_003 and GridCanvas.js the ledger has one entry
\* for each stroke recognized as a shape and none for a freehand stroke, and no
\* entry has type freehand.
C2_LedgerCountsRecognized ==
  variant \in { "final", "heuristic" } =>
     /\ Len(recognizedShapes) = nRecognized
     /\ \A i \in DOMAIN recognizedShapes : recognizedShapes[i].type # "freehand"

\* One stroke was recognized and one came out freehand.
C2_Witness ==
  /\ variant \in { "final", "heuristic" }
  /\ nRecognized = 1
  /\ nFreehand = 1
  /\ Len(recognizedShapes) = 1

\* The stroke went through the contour pipeline of part_002 or part_003.
Contoured == Returned /\ variant \in { "contour", "final" }

\* The heuristic tier in the order rectangle, circle, arrow.
HeuristicType(s) ==
  IF isRectangle(s) THEN "rectangle"
  ELSE IF isCircle(s) THEN "circle"
  ELSE IF isArrow(s) THEN "arrow"
  ELSE "freehand"

\* The script is loaded and the trace of the stroke gave no classified shape.
NoContourShape == Contoured /\ lastEvent.loaded /\ lastEvent.pipeline = "noShape"

\* C3, as amended: when the contour classifier is loaded and returns no
\* classified shape for a stroke that is no line, detectShape returns freehand
\* and asks no heuristic predicate other than isLine.
C3_NoShapeIsFreehand ==
  NoContourShape =>
     /\ lastEvent.shape = Freehand
     /\ callLog = << "isLine", "rasterize", "detectShapes" >>

\* A closed square stroke, which isRectangle accepts, came out freehand.
C3_Witness ==
  /\ NoContourShape
  /\ isRectangle(lastEvent.stroke)
  /\ lastEvent.shape = Freehand

\* C3, as claimed: in that case the result is the first match of the
\* heuristic predicates rectangle, circle, arrow, freehand only when none
\* matches.
C3_FallsBackToHeuristics ==
  NoContourShape => lastEvent.shape.type = HeuristicType(lastEvent.stroke)

\* C4: with the script not loaded, a closed near-circular stroke is classified
\* a circle.
C4_CircleWithoutContours ==
  (Contoured /\ ~lastEvent.loaded
     /\ isCircle(lastEvent.stroke) /\ isCircleVariance(lastEvent.stroke))
  => lastEvent.shape.type = "circle"

\* C5: a stroke released while the flag is false is neither rasterized nor
\* traced.
C5_PipelineSkippedWhenUnavailable ==
  (Classified /\ variant \in { "contour", "final" } /\ ~lastEvent.loaded) =>
     /\ "rasterize" \notin { callLog[i] : i \in DOMAIN callLog }
     /\ "detectShapes" \notin { callLog[i] : i \in DOMAIN callLog }

\* C6: when the pipeline throws, in rasterizing or in tracing, the stroke gets
\* the type the heuristic fallback gives it.
C6_ThrowFallsBackToHeuristics ==
  (Contoured /\ lastEvent.pipeline \in { "rasterThrow", "traceThrow" }) =>
     lastEvent.shape.type = detectShapeFallback(lastEvent.stroke).shape.type

ShapeTypes == { "line", "triangle", "square", "rectangle", "circle", "freehand" }

\* C7: in part_003 every mouse-up runs to completion, and one that classifies
\* its stroke gets a shape back from detectShape, whatever the pipeline did.
C7_NoFailureLeavesDetectShape ==
  (Released /\ variant = "final") =>
     /\ lastEvent.completed
     /\ lastEvent.classified => (Returned /\ lastEvent.shape.type \in ShapeTypes)

\* Rasterizing threw, the stroke came out freehand and the handler finished.
C7_Witness ==
  /\ Contoured
  /\ variant = "final"
  /\ lastEvent.pipeline = "rasterThrow"
  /\ lastEvent.shape = Freehand
  /\ lastEvent.completed
  /\ ~isDrawing

\* C8: a mouse-up on a stroke of fewer than 2 points calls no classifier,
\* issues no render call and leaves the ledger and the canvas as they were.
C8_ShortStrokeDiscarded ==
  [][ (lastEvent'.handler = "mouseup" /\ Len(lastEvent'.stroke) < 2) =>
        /\ callLog' = << >>
        /\ renderLog' = << >>
        /\ recognizedShapes' = recognizedShapes
        /\ canvas' = canvas ]_vars

\* A stroke of one point was released after a shape had been recognized.
C8_Witness ==
  /\ Released
  /\ Len(lastEvent.stroke) = 1
  /\ ~lastEvent.classified
  /\ callLog = << >>
  /\ Len(recognizedShapes) = 1

\* The render calls of a redraw from the ledger as it is after the append.
RedrawFromLedger ==
  << [op |-> "clearRect"], [op |-> "drawGrid", style |-> GridStyle] >> \o
  [i \in 1..Len(recognizedShapes) |->
     [op |-> "stroke", prim |-> Primitive(recognizedShapes[i]), style |-> RecognizedStyle]]

\* C9: in part_003 a recognition clears the surface, draws the grid, then
\* strokes every ledger entry in insertion order, the new shape last, each in
\* the recognized style.
C9_RenderOrder ==
  (Recognized /\ variant = "final") =>
     /\ recognizedShapes # << >>
     /\ Last(recognizedShapes) = lastEvent.shape
     /\ renderLog = RedrawFromLedger

\* A second, different shape was recognized.
C9_Witness ==
  /\ Recognized
  /\ variant = "final"
  /\ Len(recognizedShapes) = 2
  /\ recognizedShapes[1].type # recognizedShapes[2].type
  /\ Len(renderLog) = 4

\* What a ledger paints: one primitive an entry in part_003, the primitives of
\* the entry's type and stroke in GridCanvas.js.
RECURSIVE PaintingOf(_, _)
PaintingOf(v, ledger) ==
  IF ledger = << >> THEN << >>
  ELSE (IF v = "heuristic"
          THEN primitivesOf(Head(ledger).type, Head(ledger).stroke)
          ELSE << Primitive(Head(ledger)) >>) \o PaintingOf(v, Tail(ledger))

\* C10: once a recognition has redrawn, the canvas shows the grid and the
\* ledger's entries, the new one included, and no raw ink.
C10_CanvasReflectsLedger ==
  (Recognized /\ lastEvent.completed) =>
     /\ canvas.grid
     /\ canvas.ink = {}
     /\ canvas.shapes = PaintingOf(variant, recognizedShapes)

\* C11: a mouse-up whose stroke is classified freehand issues no render call,
\* so neither a clear nor a redraw: the canvas with its raw ink and the ledger
\* stay as they were.
C11_FreehandLeavesCanvas ==
  [][ (/\ lastEvent'.handler = "mouseup"
       /\ lastEvent'.classified
       /\ "shape" \in DOMAIN lastEvent'
       /\ lastEvent'.shape.type = "freehand") =>
        /\ renderLog' = << >>
        /\ "drawRecognizedShape" \notin { callLog'[i] : i \in DOMAIN callLog' }
        /\ canvas' = canvas
        /\ ctxStyle' = ctxStyle
        /\ recognizedShapes' = recognizedShapes ]_vars

\* A freehand stroke was released over a recognized shape and its ink stays.
C11_Witness ==
  /\ Returned
  /\ lastEvent.shape = Freehand
  /\ canvas.ink # {}
  /\ canvas.shapes # << >>
  /\ renderLog = << >>
  /\ Len(recognizedShapes) = 1

\* The redraw of the step just taken, done once more from the state it left:
\* the same ledger as it read and the same new shape.
RedrawAgain ==
  drawRecognizedShape(Gfx(ctxStyle', canvas', << >>), recognizedShapes, lastEvent'.shape)

\* C12: in part_003 a redraw repeated from the same ledger issues the render
\* calls the first one issued and paints the same canvas, and each of the two
\* leaves the drawing style as it found it.
C12_RedrawIdempotent ==
  [][ (/\ variant = "final"
       /\ lastEvent'.handler = "mouseup"
       /\ lastEvent'.classified
       /\ "shape" \in DOMAIN lastEvent'
       /\ lastEvent'.shape.type # "freehand") =>
        /\ ~RedrawAgain.thrown
        /\ RedrawAgain.log = renderLog'
        /\ RedrawAgain.canvas = canvas'
        /\ ctxStyle' = ctxStyle
        /\ RedrawAgain.style = ctxStyle' ]_vars

\* A redraw of two shapes over a canvas that held raw ink, which repeats to
\* the same four calls.
C12_Witness ==
  /\ Recognized
  /\ variant = "final"
  /\ Len(recognizedShapes) = 2
  /\ ctxStyle = InkStyle
  /\ drawRecognizedShape(Gfx(ctxStyle, canvas, << >>),
                         SubSeq(recognizedShapes, 1, 1), lastEvent.shape).log = renderLog

\* C13: the ledger only grows at its end: a step of any handler leaves every
\* entry where and as it was, adds at most one entry, which is the shape just
\* recognized, and there are never more entries than pointer-down events.
C13_LedgerAppendOnly ==
  [][ /\ Len(recognizedShapes') \in { Len(recognizedShapes), Len(recognizedShapes) + 1 }
      /\ SubSeq(recognizedShapes', 1, Len(recognizedShapes)) = recognizedShapes
      /\ Len(recognizedShapes') > Len(recognizedShapes) =>
           /\ lastEvent'.handler = "mouseup"
           /\ lastEvent'.classified
           /\ Last(recognizedShapes') =
                ledgerEntry(variant, lastEvent'.shape, lastEvent'.stroke)
      /\ Len(recognizedShapes') <= nDown' ]_vars

\* Two entries in the order they were recognized, the script having loaded
\* in between or before.
C13_Witness ==
  /\ Len(recognizedShapes) = 2
  /\ nDown = 2
  /\ script = "loaded"
  /\ lastEvent.handler = "mouseleave"

\* C14: every shape detectShape returns in part_002 or part_003 has one of
\* the six types and, unless it is freehand, every field drawCleanShape reads
\* for its type, and the redraw of it runs through.
C14_ShapesCarryTheirFields ==
  Contoured =>
     /\ lastEvent.shape.type \in ShapeTypes
     /\ FieldsRead(lastEvent.shape.type) \subseteq DOMAIN lastEvent.shape
     /\ lastEvent.completed

\* C15: a mouse-leave ends the stroke in progress and empties its buffer
\* without calling a classifier or touching the ledger; while no stroke is in
\* progress, a release classifies nothing and a move adds no point.
C15_LeaveDiscardsStroke ==
  [][ /\ lastEvent'.handler = "mouseleave" =>
           /\ ~isDrawing'
           /\ currentStroke' = << >>
           /\ callLog' = << >>
           /\ renderLog' = << >>
           /\ recognizedShapes' = recognizedShapes
      /\ (~isDrawing /\ lastEvent'.handler \in { "mouseup", "mousemove" }) =>
           /\ ~isDrawing'
           /\ currentStroke' = << >>
           /\ callLog' = << >>
           /\ recognizedShapes' = recognizedShapes
           /\ canvas' = canvas
           /\ nRecognized' = nRecognized
           /\ nFreehand' = nFreehand ]_vars

\* A stroke of several points was abandoned, and the release that followed
\* classified nothing: no stroke has been classified, yet ink is on the canvas.
C15_Witness ==
  /\ Released
  /\ ~lastEvent.classified
  /\ lastEvent.stroke = << >>
  /\ nDown = 1
  /\ nRecognized + nFreehand = 0
  /\ canvas.ink # {}
  /\ recognizedShapes = << >>

\* C16: in part_003 and GridCanvas.js detectShape has been called at most as
\* often as the pointer has gone down, a release classifies at most once, and
\* a release with no stroke in progress classifies nothing.
C16_OneClassificationPerCycle ==
  [][ /\ variant \in { "final", "heuristic" } => nRecognized' + nFreehand' <= nDown'
      /\ nRecognized' + nFreehand' <= nRecognized + nFreehand + 1
      /\ (lastEvent'.handler = "mouseup" /\ ~isDrawing) =>
           /\ ~lastEvent'.classified
           /\ callLog' = << >>
           /\ nRecognized' + nFreehand' = nRecognized + nFreehand ]_vars

\* Two presses, one stroke classified: the second release found no stroke in
\* progress.
C16_Witness ==
  /\ variant \in { "final", "heuristic" }
  /\ Released
  /\ ~lastEvent.classified
  /\ lastEvent.stroke = << >>
  /\ nDown = 2
  /\ nRecognized + nFreehand = 1

NearClosedSquare == << Pt(0, 0), Pt(50, 0), Pt(50, 50), Pt(0, 50), Pt(0, 2) >>

\* C18: in GridCanvas.js the stroke (0,0),(50,0),(50,50),(0,50),(0,2) is
\* classified rectangle and drawn as the rectangle at (0,0) of width 50 and
\* height 50.
C18_NearClosedSquareIsRectangle ==
  (Classified /\ variant = "heuristic" /\ lastEvent.stroke = NearClosedSquare) =>
     /\ lastEvent.shape.type = "rectangle"
     /\ Last(recognizedShapes) = [type |-> "rectangle", stroke |-> NearClosedSquare]
     /\ Last(canvas.shapes).kind = "rect"
     /\ Last(canvas.shapes).bounds.minX = 0
     /\ Last(canvas.shapes).bounds.minY = 0
     /\ Last(canvas.shapes).bounds.width = 50
     /\ Last(canvas.shapes).bounds.height = 50

\* The square was drawn and released in GridCanvas.js.
C18_Witness ==
  /\ Recognized
  /\ variant = "heuristic"
  /\ lastEvent.stroke = NearClosedSquare
  /\ callLog = << "isLine", "isCircle", "isRectangle", "drawRecognizedShape" >>

\* The rectangle strokeRect paints for a stroke whose bounds are w by h at (0, 0).
RectAtOrigin(w, h) ==
  [kind |-> "rect",
   bounds |-> [minX |-> 0, maxX |-> w, minY |-> 0, maxY |-> h, width |-> w, height |-> h]]

\* C17: a perfect axis-aligned closed rectangle, whatever its width, height
\* and number of samples a side, is classified rectangle by detectShape of
\* GridCanvas.js and by the fallback of part_003, and drawn with its own
\* bounding box.
C17_PerfectRectangleIsRectangle ==
  \A w \in Sides, h \in Sides, n \in Densities, gap \in Gaps :
     (/\ lastEvent.handler \in { "detectShape", "detectShapeFallback" }
      /\ lastEvent.stroke = PerfectRectangle(w, h, n, gap)) =>
        /\ lastEvent.type = "rectangle"
        /\ lastEvent.drawn = << RectAtOrigin(w, h) >>

\* Each predicate's own degenerate input: no length for isLine, a flat
\* bounding box for isRectangle and isCircle, no radius for isCircle.
ZeroPathLength(s) == calculateTotalDistance(s) = 0
ZeroDimension(s) == getBoundingBox(s).width = 0 \/ getBoundingBox(s).height = 0
ZeroRadius(s) == average(radii(s)) = 0

\* C19: on a stroke degenerate for it a predicate returns false, and no
\* predicate ever divides by zero, the zero test coming before the division.
C19_DegenerateNotMatched ==
  lastEvent.handler = "predicates" =>
     /\ ZeroPathLength(lastEvent.stroke) => ~lastEvent.isLine
     /\ ZeroDimension(lastEvent.stroke) => (~lastEvent.isRectangle /\ ~lastEvent.isCircle)
     /\ ZeroRadius(lastEvent.stroke) => ~lastEvent.isCircle
     /\ \A i \in DOMAIN lastEvent.lineDivisors : lastEvent.lineDivisors[i] # 0
     /\ \A i \in DOMAIN lastEvent.rectangleDivisors : lastEvent.rectangleDivisors[i] # 0
     /\ \A i \in DOMAIN lastEvent.circleDivisors : lastEvent.circleDivisors[i] # 0

\* The release classified its stroke through the contour pipeline.
Rasterized ==
  /\ Classified
  /\ variant \in { "final", "contour" }
  /\ lastEvent.pipeline \notin { "notRun", "fallback" }

HeuristicsDecided ==
  /\ Returned
  /\ \/ variant = "heuristic"
     \/ variant = "contour" /\ \E i \in DOMAIN callLog : callLog[i] = "detectShapeFallback"

\* Line, then circle, then rectangle, then arrow, with the predicates of the
\* variant; part_002 has no isArrow.
FirstMatch(v, s) ==
  IF isLine(s) THEN "line"
  ELSE IF (IF v = "heuristic" THEN isCircleVariance(s) ELSE isCircle(s)) THEN "circle"
  ELSE IF (IF v = "heuristic" THEN isRectangleCorners(s) ELSE isRectangle(s)) THEN "rectangle"
  ELSE IF v = "heuristic" /\ isArrow(s) THEN "arrow"
  ELSE "freehand"

\* C21: the heuristic tier evaluates line, circle, rectangle, arrow in this
\* order and returns the first that holds, freehand only when none holds.
C21_FirstMatchWins ==
  HeuristicsDecided => lastEvent.shape.type = FirstMatch(variant, lastEvent.stroke)

\* C28: after every mouse-up, whichever tier classified the stroke, isDrawing
\* is false, currentStroke is empty, and a recognized shape is the last entry
\* of recognizedShapes.
C28_ReleaseResetsSession ==
  Released =>
    /\ ~isDrawing
    /\ currentStroke = << >>
    /\ Recognized =>
         /\ Len(recognizedShapes) > 0
         /\ Last(recognizedShapes) = ledgerEntry(variant, lastEvent.shape, lastEvent.stroke)

\* C29: in the fallback of part_002 every stroke isCircle accepts is accepted
\* by isRectangle, which is asked first, so the fallback never returns a circle.
C29_FallbackNeverCircle ==
  lastEvent.handler = "fallback" =>
    /\ lastEvent.isCircle => lastEvent.isRectangle
    /\ lastEvent.shape.type # "circle"

\* The fallback is given a stroke isCircle accepts, and answers rectangle.
C29_Witness ==
  /\ lastEvent.handler = "fallback"
  /\ lastEvent.isCircle
  /\ lastEvent.shape.type = "rectangle"

\* The label the vertex count and the circularity give a contour.
LabelOf(contour) ==
  IF Len(contour.approx) = 3 THEN "triangle"
  ELSE IF Len(contour.approx) = 4 THEN "rectangle"
  ELSE IF circularityExceeds(contour.area, contour.perimeter) THEN "circle"
  ELSE "unknown"

\* Positions of the contours whose label is not unknown.
KnownAt(contours) == { i \in DOMAIN contours : LabelOf(contours[i]) # "unknown" }

\* C22: a contour is labelled by the vertex count of its approximation, 3 a
\* triangle and 4 a rectangle with these vertices, any other count a circle iff
\* its circularity exceeds 0.85 and unknown otherwise; the shape taken is that
\* of the first contour in trace order that is not unknown, none if all are.
C22_FirstKnownContour ==
  lastEvent.handler = "detectShapes" =>
    LET contours == lastEvent.contours
        known == KnownAt(contours)
    IN IF known = { }
         THEN lastEvent.shapes = << >> /\ lastEvent.shape = Freehand
         ELSE LET first == CHOOSE i \in known : \A j \in known : i <= j
                  label == LabelOf(contours[first])
              IN /\ lastEvent.shape.type = label
                 /\ label \in { "triangle", "rectangle" } =>
                      lastEvent.shape.vertices = contours[first].approx
                 /\ Len(lastEvent.shapes) = Cardinality(known)

\* Two contours are traced, an unknown one first and a rectangle after it.
C22_Witness ==
  /\ lastEvent.handler = "detectShapes"
  /\ Len(lastEvent.contours) = 2
  /\ LabelOf(lastEvent.contours[1]) = "unknown"
  /\ lastEvent.shape.type = "rectangle"

\* Closed, at least 2 corners, width/height strictly between 0.2 and 5.
RectangleByCorners(s) ==
  /\ isClosed(s)
  /\ Len(findCorners(s)) >= 2
  /\ AspectBetween(getBoundingBox(s), 2, 50, 10)

\* C23: isRectangle is true iff the stroke is closed, has at least 2 corners
\* and an aspect ratio strictly between 0.2 and 5, in GridCanvas.js and in
\* part_003 alike.
C23_IsRectangleIff ==
  lastEvent.handler = "shapePredicates" =>
    /\ lastEvent.isRectangleCorners = RectangleByCorners(lastEvent.stroke)
    /\ lastEvent.isRectangle = RectangleByCorners(lastEvent.stroke)

\* Closed, variance of the radii over their mean below 0.5, width/height
\* strictly between 0.5 and 2.
CircleByVariance(s) ==
  /\ isClosed(s)
  /\ 2 * calculateVariance(radii(s)) < Scale * average(radii(s))
  /\ AspectBetween(getBoundingBox(s), 5, 20, 10)

\* C24: isCircle is true iff the stroke is closed, the variance of its
\* distances to the centroid over their mean is below 0.5 and its aspect
\* ratio is strictly between 0.5 and 2, in GridCanvas.js and in part_003 alike.
C24_IsCircleIff ==
  lastEvent.handler = "shapePredicates" =>
    /\ lastEvent.isCircleVariance = CircleByVariance(lastEvent.stroke)
    /\ lastEvent.isCircle = CircleByVariance(lastEvent.stroke)

\* C25: isArrow is false below 6 samples; from 6 samples on it is true iff the
\* first floor(0.7 n) samples make a line and the remaining ones hold at least
\* 3 corners.
C25_ArrowSplitsAtSeventyPercent ==
  lastEvent.handler = "findCorners" =>
    LET s == lastEvent.stroke
        n == Len(s)
        shaftEnd == (7 * n) \div 10
    IN IF n < 6 THEN ~lastEvent.isArrow
       ELSE lastEvent.isArrow =
              (/\ isLine(SubSeq(s, 1, shaftEnd))
               /\ Len(findCorners(SubSeq(s, shaftEnd + 1, n))) >= 3)

\* The turn at sample i of s, between its incoming and its outgoing segment,
\* is of more than 30 degrees.
TurnAt(s, i) ==
  TurnsMoreThan30(Dir(s[i].x - s[i - 1].x, s[i].y - s[i - 1].y),
                  Dir(s[i + 1].x - s[i].x, s[i + 1].y - s[i].y))

\* The interior samples where the stroke turns by more than 30 degrees, in
\* stroke order.
TurningPoints(s) ==
  LET at == SelectSeq([i \in 1..(Len(s) - 2) |-> i + 1], LAMBDA i : TurnAt(s, i))
  IN [k \in DOMAIN at |-> s[at[k]]]

\* C26: findCorners reports the interior points where the turning angle
\* exceeds 30 degrees and no others, whatever the heading of the segments, in
\* stroke order, and never the first or the last point.
C26_CornersAreTurns ==
  lastEvent.handler = "findCorners" =>
    lastEvent.corners = TurningPoints(lastEvent.stroke)

\* C27: every OpenCV object allocated by detectShapes, the contours fetched
\* and the approximations included, has been deleted when it returns, whether
\* it returns its shapes or the catch returns.
C27_NothingLeftOnHeap ==
  lastEvent.handler = "heap" => lastEvent.allocated \subseteq lastEvent.deleted

\* C30: on the mobile canvas the path of every gesture released after at least
\* one move is still in paths, whatever gestures came after it.
C30_ReleasedPathsKept ==
  \A k \in DOMAIN released : \E i \in DOMAIN paths : paths[i] = released[k]

====
